---- MODULE Spec2Model ----
(***************************************************************************)
(* A model of the quantaworker client library (src/quantaworker):          *)
(* the schema model (ValueType, Column), the invocation model, and the     *)
(* run loop of QuantaWorker with its three specialisations (Forecast,      *)
(* Detect, Import).  The orchestration server, the HTTP transport and the  *)
(* user-supplied hooks (forecast, detect, run_sample, run_import) are the  *)
(* environment: every response, transport exception and hook result is a   *)
(* nondeterministic choice from a small set.                               *)
(***************************************************************************)
EXTENDS Integers, Sequences, FiniteSets, TLC

(***************************************************************************)
(* Bounds of the model.                                                    *)
(***************************************************************************)
\* Number of iterations of the `while not EXIT` loop that may start.
MaxIter == 2
\* Longest list of anomalies a detect hook returns.
MaxAnomalies == 1
\* Longest declared column list the schema operations are applied to.
MaxCols == 3

(***************************************************************************)
(* Module-level constants of the library.                                  *)
(***************************************************************************)
TYPE_BOOL == "java.lang.Boolean"
TYPE_INT == "java.lang.Long"
TYPE_FLOAT == "java.lang.Double"
TYPE_STR == "java.lang.String"
TYPE_TIMESTAMP == "java.time.Instant"

(***************************************************************************)
(* Results of calls that may raise: exc = "" is a normal return of val.    *)
(***************************************************************************)
Ok(v) == [exc |-> "", val |-> v]
Err(e) == [exc |-> e, val |-> <<>>]

(***************************************************************************)
(* An optional index (Optional[int]): <<>> is None, <<i>> is the int i.    *)
(***************************************************************************)
None == <<>>
Some(i) == <<i>>

(***************************************************************************)
(* ValueType and its factories (only the ones the example worker uses).    *)
(***************************************************************************)
ValueType_float_column ==
  [className |-> TYPE_FLOAT, format |-> "", nullable |-> FALSE]

ValueType_timestamp_column ==
  [className |-> TYPE_TIMESTAMP, format |-> "yyyy-MM-dd hh:mm:ss", nullable |-> FALSE]

ValueType_dict(vt) ==
  [className |-> vt.className, format |-> vt.format, nullable |-> vt.nullable]

(***************************************************************************)
(* Column: the two factories and the serialisation.                        *)
(***************************************************************************)
Column_input(name, description, value_type) ==
  [name |-> name, description |-> description, index |-> -1,
   column_type |-> "input", value_type |-> ValueType_dict(value_type)]

Column_output(name, description, value_type, index) ==
  [name |-> name, description |-> description, index |-> index,
   column_type |-> "output", value_type |-> ValueType_dict(value_type)]

\* Column.dict(index_fallback): the column's own index unless it is the
\* sentinel -1, then the fallback, and a ValueError when there is none.
\* (Mutant: a column with neither index silently gets index 0.)
Column_dict_silent_default(c, index_fallback) ==
  Ok([id |-> 0,
      name |-> c.name,
      description |-> c.description,
      index |-> IF c.index # -1 THEN c.index
                ELSE IF index_fallback = None THEN 0 ELSE index_fallback[1],
      valueType |-> ValueType_dict(c.value_type),
      columnType |-> c.column_type])

Column_dict(c, index_fallback) ==
  IF c.index = -1 /\ index_fallback = None
    THEN Err("ValueError")
    ELSE Ok([id |-> 0,
             name |-> c.name,
             description |-> c.description,
             index |-> IF c.index = -1 THEN index_fallback[1] ELSE c.index,
             valueType |-> ValueType_dict(c.value_type),
             columnType |-> c.column_type])

\* The list comprehension  [c for c in cols if c.column_type == role].
ColumnsOfType(cols, role) ==
  SelectSeq(cols, LAMBDA c : c.column_type = role)

\* [c.dict(index) for index, c in enumerate(cols)]: the fallback is always
\* given, so no element raises.
EnumerateDict(cols) ==
  [i \in 1..Len(cols) |-> Column_dict(cols[i], Some(i - 1)).val]

\* QuantaWorker._auto_gen_indices: inputs first, then outputs, each
\* enumerated from zero.
\* (Mutant: one enumeration over the whole list, no partition by role.)
_auto_gen_indices_unpartitioned(cols) == EnumerateDict(cols)

_auto_gen_indices(cols) ==
  EnumerateDict(ColumnsOfType(cols, "input")) \o
  EnumerateDict(ColumnsOfType(cols, "output"))

(***************************************************************************)
(* Tables (pandas DataFrames): column names and rows of cells.             *)
(***************************************************************************)
Frame(names, rows) == [names |-> names, rows |-> rows]

\* DataFrame.empty: an axis of length zero.
Empty(data) == Len(data.names) = 0 \/ Len(data.rows) = 0

\* Position of a column label in the frame (0 when the label is absent).
Position(data, name) ==
  IF \E i \in 1..Len(data.names) : data.names[i] = name
    THEN CHOOSE i \in 1..Len(data.names) : data.names[i] = name
    ELSE 0

\* datetime.strftime('%Y-%m-%dT%H:%M:%SZ') of a timestamp cell.
Strftime(t) == t \o "Z"

\* The columns a time-series upload reads: the declared output columns whose
\* generated index is greater than zero, keyed by str(index); or, for a
\* worker that declares no column at all, every frame column after the
\* first, keyed by its own name.
\* (Mutant: every declared output column is read, whatever its index.)
SeriesColumns_every_output(cols, data) ==
  IF Len(cols) > 0
    THEN LET sel == SelectSeq(_auto_gen_indices(cols), LAMBDA x : x.columnType = "output")
         IN  [i \in 1..Len(sel) |-> [key |-> ToString(sel[i].index), name |-> sel[i].name]]
    ELSE LET rest == SubSeq(data.names, 2, Len(data.names))
         IN  [i \in 1..Len(rest) |-> [key |-> rest[i], name |-> rest[i]]]

SeriesColumns(cols, data) ==
  IF Len(cols) > 0
    THEN LET sel == SelectSeq(_auto_gen_indices(cols),
                       LAMBDA x : x.columnType = "output" /\ x.index > 0)
         IN  [i \in 1..Len(sel) |-> [key |-> ToString(sel[i].index), name |-> sel[i].name]]
    ELSE LET rest == SubSeq(data.names, 2, Len(data.names))
         IN  [i \in 1..Len(rest) |-> [key |-> rest[i], name |-> rest[i]]]

\* The dict `values` built for one row: later columns overwrite earlier ones
\* that share a key.
RowValues(sc, data, row) ==
  LET keys == {sc[i].key : i \in 1..Len(sc)}
      last(k) == CHOOSE i \in 1..Len(sc) :
                   sc[i].key = k /\ \A j \in 1..Len(sc) : sc[j].key = k => j <= i
  IN  [k \in keys |-> row[Position(data, sc[last(k)].name)]]

\* The timestamp of one row: the ds column formatted, else the first cell.
RowTime(data, row) ==
  IF Position(data, "ds") # 0 THEN Strftime(row[Position(data, "ds")]) ELSE row[1]

\* responseData of _upload_timeseries_data, or the KeyError of cast[name]
\* when a selected column is no column of the frame.
SeriesBody(cols, data) ==
  LET sc == SeriesColumns(cols, data)
  IN  IF Len(data.rows) > 0 /\ \E i \in 1..Len(sc) : Position(data, sc[i].name) = 0
        THEN Err("KeyError")
        ELSE Ok([r \in 1..Len(data.rows) |->
                   [time |-> RowTime(data, data.rows[r]),
                    values |-> RowValues(sc, data, data.rows[r])]])

\* The body of _upload_data_sample: columns serialised with no fallback
\* index (a ValueError for a column whose index is -1), every cell (an
\* integer in the model's samples) turned into its string by str().
SampleBody(sample) ==
  IF \E i \in 1..Len(sample.columns) : Column_dict(sample.columns[i], None).exc # ""
    THEN Err("ValueError")
    ELSE Ok([columns |-> [i \in 1..Len(sample.columns) |->
                            Column_dict(sample.columns[i], None).val],
             data |-> [r \in 1..Len(sample.data.rows) |->
                         [k \in 1..Len(sample.data.rows[r]) |->
                            ToString(sample.data.rows[r][k])]],
             errorFlag |-> FALSE])

\* json.dumps(anomalies): Anomaly is a plain class with no JSON encoding, so
\* a list holding an Anomaly raises TypeError; the empty list dumps as [].
AnomaliesBody(anomalies) ==
  IF Len(anomalies) > 0 THEN Err("TypeError") ELSE Ok(anomalies)

(***************************************************************************)
(* The environment: what the server, the transport and the hooks may give. *)
(***************************************************************************)
WorkerTypes == {"Forecast", "Detect", "Import"}
InvocationIds == {1, 2}
TaskTypes == {"IMPORT_SAMPLE", "IMPORT"}

\* Declared column lists: none; outputs only, as the example worker
\* declares them; an input column and outputs.
OutputColumns ==
  << Column_output("time", "time", ValueType_timestamp_column, 0),
     Column_output("open", "open", ValueType_float_column, 1) >>

MixedColumns ==
  << Column_input("volume", "volume", ValueType_float_column) >> \o OutputColumns

ColumnLists == {<<>>, OutputColumns, MixedColumns}

\* Frames a forecast or run_import hook returns: the declared output
\* columns, with no row or with one row of strings.
Frames ==
  {Frame(<<"time", "open">>, <<>>),
   Frame(<<"time", "open">>, << <<"2020-10-05T08:51:00Z", "1.5">> >>)}

\* Samples a run_sample hook returns: any of the column lists with one row
\* of integer cells.
DataSamples ==
  {[columns |-> cl, data |-> Frame([i \in 1..Len(cl) |-> cl[i].name],
                                   << [i \in 1..Len(cl) |-> i] >>)]
     : cl \in ColumnLists \ {<<>>}}

\* Anomaly objects and the lists a detect hook returns.
Anomalies ==
  {[start |-> "t1", end |-> "t2", classification |-> "spike",
    sample |-> <<>>, probability |-> 1, metadata |-> <<>>]}

AnomalyLists == UNION {[1..k -> Anomalies] : k \in 0..MaxAnomalies}

\* An HTTP exchange ends in a response with a status code or in an
\* exception raised by the transport.
Resp(s) == [exc |-> "", status |-> s]
Raise(e) == [exc |-> e, status |-> 0]

RegisterOutcomes ==
  {Resp(200), Resp(500), Raise("TimeoutError"), Raise("ConnectionError")}
StatusOutcomes == {Resp(200), Resp(500), Raise("ConnectionError")}
RequestOutcomes == {Resp(200), Raise("ConnectionError")}

\* The JSON of a 200 poll response; the server may leave out 'task'.
NoJson == [invocationId |-> 0, hasTask |-> FALSE, taskType |-> "", parameters |-> <<>>]
InvocationJsons ==
  {[invocationId |-> i, hasTask |-> TRUE, taskType |-> t,
    parameters |-> << [name |-> "test_1", value |-> "10.0"] >>]
     : i \in InvocationIds, t \in TaskTypes}
  \cup
  {[invocationId |-> i, hasTask |-> FALSE, taskType |-> "",
    parameters |-> << [name |-> "test_1", value |-> "10.0"] >>]
     : i \in InvocationIds}

PollResponses ==
  {[exc |-> "", status |-> 200, json |-> j] : j \in InvocationJsons}
  \cup
  {[exc |-> "", status |-> s, json |-> NoJson] : s \in {401, 403, 404, 500}}
  \cup
  {[exc |-> e, status |-> 0, json |-> NoJson] : e \in {"TimeoutError", "ConnectionError"}}

(***************************************************************************)
(* The invocation model.                                                   *)
(***************************************************************************)
InvocationParam(d) == [name |-> d.name, value |-> d.value]

\* Invocation.__init__: dict['task']['taskType'] raises KeyError for a dict
\* with no 'task' entry.
Invocation(d) ==
  IF ~d.hasTask
    THEN Err("KeyError")
    ELSE Ok([invocation_id |-> d.invocationId,
             task_type |-> d.taskType,
             parameters |-> [i \in 1..Len(d.parameters) |->
                               InvocationParam(d.parameters[i])]])

NoInvocation == [invocation_id |-> 0, task_type |-> "", parameters |-> <<>>]

(***************************************************************************)
(* State.                                                                  *)
(*   pc          position of the main thread in run() and in invoke()      *)
(*   EXIT        the module-level termination flag                         *)
(*   worker_type, columns   the concrete worker: its type and its declared *)
(*               column list (fixed for a run)                             *)
(*   invocation  the local `invocation` of the run loop (NoInvocation for  *)
(*               None)                                                     *)
(*   result      the value the hook returned inside invoke()               *)
(*   iter        number of loop iterations started                         *)
(* History, for stating properties:                                        *)
(*   log         the requests sent and calls made since the current loop   *)
(*               iteration started (since run() started, before the first) *)
(*   polled      ids of the invocations the polls returned, in order       *)
(*   dispatched  ids of the invocations invoke() was called on, in order   *)
(*   inflight    ids whose status-2 update was sent and whose status-1     *)
(*               update was not                                            *)
(*   exit_seen   the value of EXIT read by the latest `while not EXIT`     *)
(*   registrations  the outcomes of all registration requests, in order    *)
(***************************************************************************)
VARIABLES pc, EXIT, worker_type, columns, invocation, result, iter,
          log, polled, dispatched, inflight, exit_seen, registrations

vars == <<pc, EXIT, worker_type, columns, invocation, result, iter,
          log, polled, dispatched, inflight, exit_seen, registrations>>

NoRes == [exc |-> "", status |-> 0]
NoBody == <<>>
Ev(op, id, arg, res, body) ==
  [op |-> op, id |-> id, arg |-> arg, res |-> res, body |-> body]

Init ==
  /\ pc = "init"
  /\ EXIT = FALSE
  /\ worker_type \in WorkerTypes
  /\ columns \in ColumnLists
  /\ invocation = NoInvocation
  /\ result = <<>>
  /\ iter = 0
  /\ log = <<>>
  /\ polled = <<>>
  /\ dispatched = <<>>
  /\ inflight = {}
  /\ exit_seen = FALSE
  /\ registrations = <<>>

(***************************************************************************)
(* The signal handler: sets the flag, at any moment once run() has         *)
(* installed it and while the process lives.                               *)
(***************************************************************************)
\* (Mutant: the handler also abandons the iteration that is under way.)
_signal_handler_interrupts ==
  /\ pc \notin {"init", "done", "crashed"}
  /\ EXIT' = TRUE
  /\ pc' = IF pc = "register" THEN pc ELSE "loop"
  /\ UNCHANGED <<worker_type, columns, invocation, result, iter,
                 log, polled, dispatched, inflight, exit_seen, registrations>>

_signal_handler ==
  /\ pc \notin {"init", "done", "crashed"}
  /\ EXIT' = TRUE
  /\ UNCHANGED <<pc, worker_type, columns, invocation, result, iter,
                 log, polled, dispatched, inflight, exit_seen, registrations>>

(***************************************************************************)
(* run(): the order of the statements of the loop body.                    *)
(***************************************************************************)
\* The `while not EXIT` test.
\* (Mutant: a loop that never reads the flag.)
WhileNotExit_ignored(flag) == TRUE

WhileNotExit(flag) == ~flag

\* The statement that follows each statement of the loop body.
\* (Mutant: invoke is called before the in-progress update is sent.)
run_next_invoke_first(at) ==
  CASE at = "sleep" -> "poll"
    [] at = "next_invocation" -> "invoke"
    [] at = "invoke" -> "status2"
    [] at = "status2" -> "status1"
    [] at = "status1" -> "loop"

\* (Mutant: the completion update is left out.)
run_next_no_complete(at) ==
  CASE at = "sleep" -> "poll"
    [] at = "next_invocation" -> "status2"
    [] at = "status2" -> "invoke"
    [] at = "invoke" -> "loop"
    [] at = "status1" -> "loop"

run_next(at) ==
  CASE at = "sleep" -> "poll"
    [] at = "next_invocation" -> "status2"
    [] at = "status2" -> "invoke"
    [] at = "invoke" -> "status1"
    [] at = "status1" -> "loop"

\* The status codes the loop sends before and after invoke.
IN_PROGRESS == 2
COMPLETE == 1

\* run() installs the handlers and calls _register().
run ==
  /\ pc = "init"
  /\ pc' = "register"
  /\ UNCHANGED <<EXIT, worker_type, columns, invocation, result, iter,
                 log, polled, dispatched, inflight, exit_seen, registrations>>

\* The top of the loop: leave when the flag is set, else start an iteration.
LoopCheck ==
  /\ pc = "loop"
  /\ exit_seen' = EXIT
  /\ IF WhileNotExit(EXIT)
       THEN /\ iter < MaxIter
            /\ pc' = "sleep"
            /\ iter' = iter + 1
            /\ log' = <<>>
       ELSE /\ pc' = "done"
            /\ UNCHANGED <<iter, log>>
  /\ UNCHANGED <<EXIT, worker_type, columns, invocation, result,
                 polled, dispatched, inflight, registrations>>

\* time.sleep(5)
Sleep ==
  /\ pc = "sleep"
  /\ pc' = run_next("sleep")
  /\ UNCHANGED <<EXIT, worker_type, columns, invocation, result, iter,
                 log, polled, dispatched, inflight, exit_seen, registrations>>

(***************************************************************************)
(* _register()                                                             *)
(***************************************************************************)
\* The except clause: only TimeoutError is caught, and it sets the flag.
\* A transport timeout is the outcome Raise("TimeoutError"); an exception of
\* any other class is the outcome Raise("ConnectionError").
\* (Mutant: the timeout is logged and the flag left alone.)
RegisterSetsExit_never(out) == FALSE

\* (Mutant: "already registered" is taken for a failure.)
RegisterSetsExit_on500(out) == out.exc = "TimeoutError" \/ out.status = 500

RegisterSetsExit(out) == out.exc = "TimeoutError"

\* Any other exception leaves _register() and run().
RegisterRaises(out) == out.exc \notin {"", "TimeoutError"}

\* (Mutant: only the first registration's timeout sets the flag.)
_register_first_timeout_only(after) ==
  \E out \in RegisterOutcomes :
    /\ log' = Append(log, Ev("register", 0, 0, out, _auto_gen_indices(columns)))
    /\ registrations' = Append(registrations, out)
    /\ EXIT' = IF RegisterSetsExit(out) /\ registrations = <<>> THEN TRUE ELSE EXIT
    /\ pc' = IF RegisterRaises(out) THEN "crashed" ELSE after

_register(after) ==
  \E out \in RegisterOutcomes :
    /\ log' = Append(log, Ev("register", 0, 0, out, _auto_gen_indices(columns)))
    /\ registrations' = Append(registrations, out)
    /\ EXIT' = IF RegisterSetsExit(out) THEN TRUE ELSE EXIT
    /\ pc' = IF RegisterRaises(out) THEN "crashed" ELSE after

\* The registration run() makes before the loop.
InitialRegister ==
  /\ pc = "register"
  /\ _register("loop")
  /\ UNCHANGED <<worker_type, columns, invocation, result, iter,
                 polled, dispatched, inflight, exit_seen>>

(***************************************************************************)
(* _next_invocation()                                                      *)
(***************************************************************************)
\* What the poll makes of its response: "none" (return None), "register"
\* (call _register(), then return None), "invocation" (return the parsed
\* Invocation) or "raise" (an exception leaves the method).
\* (Mutant: "no invocation available" is taken for "worker removed".)
PollDecision_404_registers(r) ==
  IF r.exc = "TimeoutError" THEN "none"
  ELSE IF r.exc # "" THEN "raise"
  ELSE IF r.status = 401 THEN "none"
  ELSE IF r.status = 403 THEN "register"
  ELSE IF r.status = 404 THEN "register"
  ELSE IF r.status # 200 THEN "none"
  ELSE IF Invocation(r.json).exc # "" THEN "raise"
  ELSE "invocation"

\* (Mutant: "worker removed" is skipped like any other status.)
PollDecision_403_skips(r) ==
  IF r.exc = "TimeoutError" THEN "none"
  ELSE IF r.exc # "" THEN "raise"
  ELSE IF r.status = 401 THEN "none"
  ELSE IF r.status = 403 THEN "none"
  ELSE IF r.status = 404 THEN "none"
  ELSE IF r.status # 200 THEN "none"
  ELSE IF Invocation(r.json).exc # "" THEN "raise"
  ELSE "invocation"

\* (Mutant: an unauthorized poll makes the worker register again.)
PollDecision_401_registers(r) ==
  IF r.exc = "TimeoutError" THEN "none"
  ELSE IF r.exc # "" THEN "raise"
  ELSE IF r.status = 401 THEN "register"
  ELSE IF r.status = 403 THEN "register"
  ELSE IF r.status = 404 THEN "none"
  ELSE IF r.status # 200 THEN "none"
  ELSE IF Invocation(r.json).exc # "" THEN "raise"
  ELSE "invocation"

\* (Mutant: the poll has no except clause.)
PollDecision_timeout_raises(r) ==
  IF r.exc # "" THEN "raise"
  ELSE IF r.status = 401 THEN "none"
  ELSE IF r.status = 403 THEN "register"
  ELSE IF r.status = 404 THEN "none"
  ELSE IF r.status # 200 THEN "none"
  ELSE IF Invocation(r.json).exc # "" THEN "raise"
  ELSE "invocation"

PollDecision(r) ==
  IF r.exc = "TimeoutError" THEN "none"
  ELSE IF r.exc # "" THEN "raise"
  ELSE IF r.status = 401 THEN "none"
  ELSE IF r.status = 403 THEN "register"
  ELSE IF r.status = 404 THEN "none"
  ELSE IF r.status # 200 THEN "none"
  ELSE IF Invocation(r.json).exc # "" THEN "raise"
  ELSE "invocation"

_next_invocation ==
  /\ pc = "poll"
  /\ \E r \in PollResponses :
       LET d == PollDecision(r)
           sent == Ev("poll", r.json.invocationId, 0,
                      [exc |-> r.exc, status |-> r.status], NoBody)
       IN  /\ log' = IF d = "raise" /\ r.exc = ""
                       THEN log \o <<sent, Ev("raise", 0, 0, Raise(Invocation(r.json).exc), NoBody)>>
                       ELSE Append(log, sent)
           /\ pc' = CASE d = "none" -> "loop"
                      [] d = "register" -> "reregister"
                      [] d = "invocation" -> run_next("next_invocation")
                      [] d = "raise" -> "crashed"
           /\ invocation' = IF d = "invocation" THEN Invocation(r.json).val ELSE NoInvocation
           /\ polled' = IF d = "invocation" THEN Append(polled, r.json.invocationId) ELSE polled
  /\ UNCHANGED <<EXIT, worker_type, columns, result, iter,
                 dispatched, inflight, exit_seen, registrations>>

\* The _register() call of the 403 branch; _next_invocation then returns
\* None and the loop continues.
Reregister ==
  /\ pc = "reregister"
  /\ _register("loop")
  /\ UNCHANGED <<worker_type, columns, invocation, result, iter,
                 polled, dispatched, inflight, exit_seen>>

(***************************************************************************)
(* _update_invoke_status(): the PUT is not guarded, any exception leaves   *)
(* run().                                                                  *)
(***************************************************************************)
_update_invoke_status(status, after) ==
  \E out \in StatusOutcomes :
    /\ log' = Append(log, Ev("status", invocation.invocation_id, status, out, NoBody))
    /\ inflight' = IF status = IN_PROGRESS
                     THEN inflight \cup {invocation.invocation_id}
                     ELSE inflight \ {invocation.invocation_id}
    /\ pc' = IF out.exc # "" THEN "crashed" ELSE after

MarkInProgress ==
  /\ pc = "status2"
  /\ _update_invoke_status(IN_PROGRESS, run_next("status2"))
  /\ UNCHANGED <<EXIT, worker_type, columns, invocation, result, iter,
                 polled, dispatched, exit_seen, registrations>>

MarkComplete ==
  /\ pc = "status1"
  /\ _update_invoke_status(COMPLETE, run_next("status1"))
  /\ UNCHANGED <<EXIT, worker_type, columns, invocation, result, iter,
                 polled, dispatched, exit_seen, registrations>>

(***************************************************************************)
(* invoke(): the three workers.                                            *)
(***************************************************************************)
\* self.invoke(invocation): Forecast and Detect fetch their input first,
\* Import goes straight to its hook.
invoke ==
  /\ pc = "invoke"
  /\ log' = Append(log, Ev("invoke", invocation.invocation_id, 0, NoRes, NoBody))
  /\ dispatched' = Append(dispatched, invocation.invocation_id)
  /\ pc' = IF worker_type = "Import" THEN "hook" ELSE "fetch"
  /\ UNCHANGED <<EXIT, worker_type, columns, invocation, result, iter,
                 polled, inflight, exit_seen, registrations>>

\* _fetch_data(): an unguarded GET.
_fetch_data ==
  /\ pc = "fetch"
  /\ \E out \in RequestOutcomes :
       /\ log' = Append(log, Ev("fetch", invocation.invocation_id, 0, out, NoBody))
       /\ pc' = IF out.exc # "" THEN "crashed" ELSE "hook"
  /\ UNCHANGED <<EXIT, worker_type, columns, invocation, result, iter,
                 polled, dispatched, inflight, exit_seen, registrations>>

\* A hook is called and returns `value` (kept in the log entry of the call).
\* The hooks are the worker author's code: they are taken to return a value
\* of their declared type; what the library does with it may still raise.
HookReturns(name, value) ==
  /\ log' = Append(log, Ev(name, invocation.invocation_id, 0, NoRes, value))
  /\ result' = value
  /\ pc' = "upload"
  /\ UNCHANGED <<EXIT, worker_type, columns, invocation, iter,
                 polled, dispatched, inflight, exit_seen, registrations>>

\* ImportWorker.invoke: the test on the task type.
IsSampleTask(task_type) == task_type = "IMPORT_SAMPLE"

\* ImportWorker.invoke: `if not data.empty`.
UploadsImport(data) == ~Empty(data)

forecast ==
  /\ pc = "hook" /\ worker_type = "Forecast"
  /\ \E f \in Frames : HookReturns("forecast", f)

detect ==
  /\ pc = "hook" /\ worker_type = "Detect"
  /\ \E a \in AnomalyLists : HookReturns("detect", a)

run_sample ==
  /\ pc = "hook" /\ worker_type = "Import"
  /\ IsSampleTask(invocation.task_type)
  /\ \E sm \in DataSamples : HookReturns("run_sample", sm)

run_import ==
  /\ pc = "hook" /\ worker_type = "Import"
  /\ ~IsSampleTask(invocation.task_type)
  /\ \E f \in Frames : HookReturns("run_import", f)

\* invoke() returns to run() after the events `done`.
InvokeReturns(done) ==
  /\ log' = log \o done \o <<Ev("invoke_ret", invocation.invocation_id, 0, NoRes, NoBody)>>
  /\ pc' = run_next("invoke")
  /\ result' = <<>>

\* An upload: building the body may raise before anything is sent; the
\* POST itself is unguarded; the response status is only printed.
Post(op, body) ==
  IF body.exc # ""
    THEN /\ log' = Append(log, Ev("raise", invocation.invocation_id, 0, Raise(body.exc), NoBody))
         /\ pc' = "crashed"
         /\ result' = <<>>
    ELSE \E out \in RequestOutcomes :
           LET sent == Ev(op, invocation.invocation_id, 0, out, body.val)
           IN  IF out.exc # ""
                 THEN /\ log' = Append(log, sent)
                      /\ pc' = "crashed"
                      /\ result' = <<>>
                 ELSE InvokeReturns(<<sent>>)

_upload_timeseries_data ==
  /\ pc = "upload"
  /\ \/ worker_type = "Forecast"
     \/ /\ worker_type = "Import"
        /\ ~IsSampleTask(invocation.task_type)
        /\ UploadsImport(result)
  /\ Post("upload_series", SeriesBody(columns, result))
  /\ UNCHANGED <<EXIT, worker_type, columns, invocation, iter,
                 polled, dispatched, inflight, exit_seen, registrations>>

\* ImportWorker.invoke with an empty frame: nothing is uploaded.
ImportNothing ==
  /\ pc = "upload"
  /\ worker_type = "Import"
  /\ ~IsSampleTask(invocation.task_type)
  /\ ~UploadsImport(result)
  /\ InvokeReturns(<<>>)
  /\ UNCHANGED <<EXIT, worker_type, columns, invocation, iter,
                 polled, dispatched, inflight, exit_seen, registrations>>

_upload_anomalies ==
  /\ pc = "upload"
  /\ worker_type = "Detect"
  /\ Post("upload_anomaly", AnomaliesBody(result))
  /\ UNCHANGED <<EXIT, worker_type, columns, invocation, iter,
                 polled, dispatched, inflight, exit_seen, registrations>>

_upload_data_sample ==
  /\ pc = "upload"
  /\ worker_type = "Import"
  /\ IsSampleTask(invocation.task_type)
  /\ Post("upload_sample", SampleBody(result))
  /\ UNCHANGED <<EXIT, worker_type, columns, invocation, iter,
                 polled, dispatched, inflight, exit_seen, registrations>>

(***************************************************************************)
(* The specifications.                                                     *)
(***************************************************************************)
\* The steps of the main thread.
Main ==
  \/ run
  \/ InitialRegister
  \/ LoopCheck
  \/ Sleep
  \/ _next_invocation
  \/ Reregister
  \/ MarkInProgress
  \/ invoke
  \/ _fetch_data
  \/ forecast
  \/ detect
  \/ run_sample
  \/ run_import
  \/ _upload_timeseries_data
  \/ ImportNothing
  \/ _upload_anomalies
  \/ _upload_data_sample
  \/ MarkComplete

Next == Main \/ _signal_handler

Spec == Init /\ [][Next]_vars

\* Every blocking step of the main thread returns: the main thread keeps
\* taking steps while it has one.  Signals are under no fairness.
FairSpec == Spec /\ WF_vars(Main)

(***************************************************************************)
(* Helpers for stating the properties.                                     *)
(***************************************************************************)
\* Positions of the log entries of one kind.
At(op) == {i \in 1..Len(log) : log[i].op = op}

\* Positions of the status updates that carry a given status code.
StatusAt(code) == {i \in At("status") : log[i].arg = code}

\* The run has ended: run() returned or an exception left it.
Ended == pc \in {"done", "crashed"}

\* The iteration's poll got a response with this status.
PolledStatus(st) ==
  /\ iter >= 1
  /\ Len(log) >= 1
  /\ log[1].op = "poll"
  /\ log[1].res.exc = ""
  /\ log[1].res.status = st

(***************************************************************************)
(* C1: for an invocation a 200 poll returned, the status-2 update for its  *)
(* id is sent before invoke is called on it, the status-1 update for its   *)
(* id is sent only after that invoke call returned, and invoke is never    *)
(* called on an invocation whose status-2 update was not sent first.       *)
(***************************************************************************)
C1_StatusOrder ==
  /\ \A i \in At("invoke") :
       /\ \E j \in StatusAt(2) : j < i /\ log[j].id = log[i].id
       /\ \E j \in At("poll") :
            j < i /\ log[j].res.status = 200 /\ log[j].id = log[i].id
  /\ \A i \in StatusAt(1) :
       \E j \in At("invoke_ret") :
         /\ j < i
         /\ log[j].id = log[i].id
         /\ \E k \in At("invoke") : k < j /\ log[k].id = log[i].id
  /\ \A i \in StatusAt(2) :
       \A k \in At("invoke") \cup At("invoke_ret") \cup StatusAt(1) : i < k

\* A whole cycle was run: polled, marked, invoked, marked complete.
C1_Witness ==
  /\ pc = "loop"
  /\ \E i \in StatusAt(1) : log[i].res.exc = "" /\ log[i].id \in InvocationIds
  /\ At("invoke_ret") # {}

(***************************************************************************)
(* C2: at most one invocation is between its status-2 and its status-1     *)
(* update, no poll is issued (nor waited for) while one is, and the        *)
(* invocations are dispatched in the order the polls returned them.        *)
(***************************************************************************)
C2_OneAtATime ==
  /\ Cardinality(inflight) <= 1
  /\ pc \in {"loop", "sleep", "poll", "reregister"} => inflight = {}
  /\ Len(dispatched) <= Len(polled)
  /\ Len(polled) <= Len(dispatched) + 1
  /\ dispatched = SubSeq(polled, 1, Len(dispatched))
  /\ pc \in {"loop", "sleep", "poll", "reregister", "done"} => dispatched = polled
  /\ Len(polled) > Len(dispatched) => pc \in {"status2", "invoke", "crashed"}

\* Two different invocations were dispatched, one after the other, and the
\* second is complete.
C2_Witness ==
  /\ pc = "loop"
  /\ Len(dispatched) = 2
  /\ dispatched = polled
  /\ dispatched[1] # dispatched[2]
  /\ inflight = {}

(***************************************************************************)
(* C3: once the flag is set, and every blocking step returning, the loop   *)
(* ends; an iteration is entered only by a check that read the flag unset, *)
(* so no poll is issued after a check that read it set.                    *)
(***************************************************************************)
C3_Terminates ==
  /\ EXIT ~> Ended
  /\ [](pc \in {"sleep", "poll", "reregister", "status2", "invoke", "fetch",
                "hook", "upload", "status1"} => ~exit_seen)
  /\ [][(pc = "loop" /\ EXIT) => pc' \in {"loop", "done"}]_vars

\* A signal arrived while an invocation was served, and run() returned.
C3_Witness ==
  /\ pc = "done"
  /\ EXIT
  /\ iter >= 1
  /\ \E i \in StatusAt(1) : log[i].res.exc = ""
  /\ \A i \in 1..Len(registrations) : registrations[i].exc = ""

(***************************************************************************)
(* C4: a poll answered 401, 404 or another status that is neither 200 nor  *)
(* 403 (500 in the model) is the only thing its iteration does: no invoke, *)
(* no status update, no registration, the flag untouched; control is back  *)
(* at the top of the loop, which sleeps and polls again unless the flag    *)
(* has been set meanwhile.                                                 *)
(***************************************************************************)
SkippedPoll == \E st \in {401, 404, 500} : PolledStatus(st)

C4_SkipCycle ==
  /\ [](SkippedPoll =>
          /\ Len(log) = 1
          /\ pc \in {"loop", "done"}
          /\ invocation = NoInvocation
          /\ inflight = {})
  /\ [][(pc = "poll" /\ SkippedPoll') =>
          /\ EXIT' = EXIT
          /\ pc' = "loop"
          /\ registrations' = registrations
          /\ dispatched' = dispatched
          /\ polled' = polled]_vars
  /\ (SkippedPoll /\ pc = "loop" /\ ~EXIT /\ iter < MaxIter) ~> (pc = "poll" \/ EXIT)

\* A poll was answered 404, the flag is unset and the loop is at its top.
C4_Witness == PolledStatus(404) /\ pc = "loop" /\ ~EXIT /\ iter < MaxIter

(***************************************************************************)
(* C5: a poll answered 403 is followed, in its iteration, by exactly one   *)
(* registration request and by no invoke and no status update; when the    *)
(* registration call returns, control is back at the top of the loop,      *)
(* which sleeps and polls again unless the flag has been set.              *)
(***************************************************************************)
C5_Reregister ==
  /\ [](PolledStatus(403) =>
          /\ Len(log) <= 2
          /\ (Len(log) = 1) <=> (pc = "reregister")
          /\ Len(log) = 2 =>
               /\ log[2].op = "register"
               /\ pc \in {"loop", "done", "crashed"}
               /\ (pc = "crashed") <=> (log[2].res.exc \notin {"", "TimeoutError"})
          /\ invocation = NoInvocation
          /\ inflight = {}
          /\ dispatched = polled)
  /\ [][(pc = "reregister" /\ pc' # pc) =>
          /\ Len(registrations') = Len(registrations) + 1
          /\ dispatched' = dispatched
          /\ polled' = polled]_vars
  /\ (PolledStatus(403) /\ pc = "loop" /\ ~EXIT /\ iter < MaxIter) ~> (pc = "poll" \/ EXIT)

\* A poll was answered 403, the worker registered again, the loop goes on.
C5_Witness ==
  /\ PolledStatus(403)
  /\ Len(log) = 2
  /\ log[2].res.status = 200
  /\ pc = "loop" /\ ~EXIT /\ iter < MaxIter

(***************************************************************************)
(* C6: when the initial registration ends in a timeout (the TimeoutError   *)
(* the except clause names), the flag is set, no second registration is    *)
(* made, and run() returns having sent no poll, no status update and       *)
(* having called no invoke.                                                *)
(***************************************************************************)
InitialTimeout ==
  /\ Len(registrations) >= 1
  /\ registrations[1].exc = "TimeoutError"

C6_RegisterTimeoutFatal ==
  /\ [](InitialTimeout =>
          /\ EXIT
          /\ pc \in {"loop", "done"}
          /\ iter = 0
          /\ Len(registrations) = 1
          /\ Len(log) = 1
          /\ polled = <<>> /\ dispatched = <<>> /\ inflight = {})
  /\ InitialTimeout ~> (pc = "done")

\* The initial registration timed out and run() has returned.
C6_Witness == InitialTimeout /\ pc = "done"

(***************************************************************************)
(* C7: a poll that ends in a timeout (the TimeoutError the except clause   *)
(* names) leaves the flag as it is, is the only thing its iteration does   *)
(* (no dispatch, no registration, no status update), and control is back   *)
(* at the top of the loop, which sleeps and polls again unless the flag    *)
(* has been set.                                                           *)
(***************************************************************************)
PollTimedOut ==
  /\ iter >= 1
  /\ Len(log) >= 1
  /\ log[1].op = "poll"
  /\ log[1].res.exc = "TimeoutError"

C7_PollTimeoutSkips ==
  /\ [](PollTimedOut =>
          /\ Len(log) = 1
          /\ pc \in {"loop", "done"}
          /\ invocation = NoInvocation
          /\ inflight = {})
  /\ [][(pc = "poll" /\ PollTimedOut') =>
          /\ EXIT' = EXIT
          /\ pc' = "loop"
          /\ registrations' = registrations
          /\ dispatched' = dispatched
          /\ polled' = polled]_vars
  /\ (PollTimedOut /\ pc = "loop" /\ ~EXIT /\ iter < MaxIter) ~> (pc = "poll" \/ EXIT)

\* A poll timed out, the flag is unset and the loop is at its top.
C7_Witness == PollTimedOut /\ pc = "loop" /\ ~EXIT /\ iter < MaxIter

(***************************************************************************)
(* C8: a registration answered 500 ("already registered"), be it the       *)
(* initial one or one made after a 403, raises nothing and leaves the flag *)
(* as it is; control goes to the top of the loop, which polls unless the   *)
(* flag has been set.                                                      *)
(***************************************************************************)
Answered500 ==
  /\ Len(registrations) >= 1
  /\ registrations[Len(registrations)].exc = ""
  /\ registrations[Len(registrations)].status = 500

C8_AlreadyRegistered ==
  /\ [][(pc \in {"register", "reregister"} /\ pc' # pc /\ Answered500') =>
          /\ EXIT' = EXIT
          /\ pc' = "loop"]_vars
  /\ (Answered500 /\ pc = "loop" /\ ~EXIT /\ iter < MaxIter) ~> (pc = "poll" \/ EXIT)

\* Two registrations were answered 500 and the loop polls once more.
C8_Witness ==
  /\ Len(registrations) >= 2
  /\ \A i \in 1..Len(registrations) :
       registrations[i].exc = "" /\ registrations[i].status = 500
  /\ pc = "poll"
  /\ ~EXIT

(***************************************************************************)
(* C9: an Import worker's invoke on an IMPORT_SAMPLE invocation calls      *)
(* run_sample, not run_import, and sends one data-sample upload; on any    *)
(* other task type it calls run_import, not run_sample, and sends a        *)
(* series-result upload exactly when the returned frame is not empty; no   *)
(* invocation causes both kinds of upload.                                 *)
(***************************************************************************)
\* invoke() was entered in this iteration and is over (returned or raised).
InvokeOver == At("invoke") # {} /\ pc \in {"status1", "loop", "done", "crashed"}

C9_ImportDispatch ==
  (worker_type = "Import" /\ InvokeOver) =>
    /\ ~(At("upload_sample") # {} /\ At("upload_series") # {})
    /\ IF invocation.task_type = "IMPORT_SAMPLE"
         THEN /\ Cardinality(At("run_sample")) = 1
              /\ At("run_import") = {}
              /\ Cardinality(At("upload_sample")) = 1
              /\ At("upload_series") = {}
         ELSE /\ Cardinality(At("run_import")) = 1
              /\ At("run_sample") = {}
              /\ At("upload_sample") = {}
              /\ \A i \in At("run_import") :
                   IF Empty(log[i].body)
                     THEN At("upload_series") = {}
                     ELSE Cardinality(At("upload_series")) = 1

(***************************************************************************)
(* C10: a Detect worker's invoke whose detect call returned sends exactly  *)
(* one anomaly-result upload for the invocation, its body the returned     *)
(* list, the empty list included.                                          *)
(***************************************************************************)
C10_AnomalyUpload ==
  (worker_type = "Detect" /\ InvokeOver /\ At("detect") # {}) =>
    /\ Cardinality(At("upload_anomaly")) = 1
    /\ \A i \in At("upload_anomaly") :
         /\ log[i].id = invocation.invocation_id
         /\ \A j \in At("detect") : Len(log[i].body) = Len(log[j].body)

(***************************************************************************)
(* Python values, their conversions, and the Parameter class.  A value is  *)
(* its type and the text str() gives for it; the conversions are tabulated *)
(* over the values below.                                                  *)
(***************************************************************************)
PyNone == [t |-> "NoneType", s |-> "None"]
PyBool(b) == [t |-> "bool", s |-> IF b THEN "True" ELSE "False"]
PyInt(s) == [t |-> "int", s |-> s]
PyFloat(s) == [t |-> "float", s |-> s]
PyStr(s) == [t |-> "str", s |-> s]

\* Values handed to the library as defaults and raw parameter values.
PyValues ==
  {PyNone, PyBool(TRUE), PyBool(FALSE), PyInt("0"), PyInt("5"),
   PyFloat("5.7"), PyFloat("10.0"),
   PyStr(""), PyStr("false"), PyStr("5"), PyStr("10.0"), PyStr("ABC")}

\* str(value)
str(v) == v.s

\* s.lower(), over the texts str() gives for the values above.
lower(s) ==
  CASE s = "None" -> "none"
    [] s = "True" -> "true"
    [] s = "False" -> "false"
    [] s = "ABC" -> "abc"
    [] OTHER -> s

\* bool(value): truthiness.
bool(v) ==
  CASE v.t = "NoneType" -> FALSE
    [] v.t = "bool" -> v.s = "True"
    [] v.t = "int" -> v.s # "0"
    [] v.t = "float" -> v.s # "0.0"
    [] OTHER -> v.s # ""

\* float(value): TypeError for None, ValueError for a text that is no number.
float(v) ==
  CASE v.t = "NoneType" -> Err("TypeError")
    [] v.t = "bool" -> Ok(PyFloat(IF v.s = "True" THEN "1.0" ELSE "0.0"))
    [] v.t = "int" -> Ok(PyFloat(v.s \o ".0"))
    [] v.t = "float" -> Ok(v)
    [] OTHER -> CASE v.s = "5" -> Ok(PyFloat("5.0"))
                  [] v.s = "10.0" -> Ok(PyFloat("10.0"))
                  [] OTHER -> Err("ValueError")

\* int(value): TypeError for None, truncation of a float, ValueError for a
\* text that is no integer literal ("10.0" included).
int(v) ==
  CASE v.t = "NoneType" -> Err("TypeError")
    [] v.t = "bool" -> Ok(PyInt(IF v.s = "True" THEN "1" ELSE "0"))
    [] v.t = "int" -> Ok(v)
    [] v.t = "float" -> Ok(PyInt(CASE v.s = "5.7" -> "5" [] v.s = "10.0" -> "10" [] OTHER -> "0"))
    [] OTHER -> CASE v.s = "5" -> Ok(PyInt("5"))
                  [] OTHER -> Err("ValueError")

\* (Mutant: the text "false" is read as the boolean False.)
_auto_cast_reads_false(value, value_type) ==
  CASE value_type = TYPE_BOOL -> Ok(PyBool(bool(value) /\ value.s # "false"))
    [] value_type = TYPE_FLOAT -> float(value)
    [] value_type = TYPE_INT -> int(value)
    [] OTHER -> Ok(value)

_auto_cast(value, value_type) ==
  CASE value_type = TYPE_BOOL -> Ok(PyBool(bool(value)))
    [] value_type = TYPE_FLOAT -> float(value)
    [] value_type = TYPE_INT -> int(value)
    [] OTHER -> Ok(value)

_auto_str(value, value_type) ==
  IF value_type = TYPE_STR THEN lower(str(value)) ELSE str(value)

\* Parameter.__init__: the default is kept as _auto_cast makes it, and an
\* exception of the cast leaves the constructor.
Parameter(dict) ==
  LET default == _auto_cast(dict.defaultValue, dict.type)
  IN  IF default.exc # ""
        THEN Err(default.exc)
        ELSE Ok([name |-> dict.name,
                 description |-> dict.description,
                 param_type |-> dict.type,
                 default |-> default.val,
                 nullable |-> dict.nullable])

\* The five typed factories.
Parameter_bool_param(name, description, default, nullable) ==
  Parameter([name |-> name, description |-> description, type |-> TYPE_BOOL,
             defaultValue |-> default, nullable |-> nullable])

Parameter_int_param(name, description, default, nullable) ==
  Parameter([name |-> name, description |-> description, type |-> TYPE_INT,
             defaultValue |-> default, nullable |-> nullable])

Parameter_float_param(name, description, default, nullable) ==
  Parameter([name |-> name, description |-> description, type |-> TYPE_FLOAT,
             defaultValue |-> default, nullable |-> nullable])

Parameter_str_param(name, description, default, nullable) ==
  Parameter([name |-> name, description |-> description, type |-> TYPE_STR,
             defaultValue |-> default, nullable |-> nullable])

Parameter_timestamp_param(name, description, default, nullable) ==
  Parameter([name |-> name, description |-> description, type |-> TYPE_TIMESTAMP,
             defaultValue |-> default, nullable |-> nullable])

\* Parameter.dict
Parameter_dict(p) ==
  [id |-> 0,
   name |-> p.name,
   description |-> p.description,
   type |-> p.param_type,
   defaultValue |-> _auto_str(p.default, p.param_type),
   nullable |-> p.nullable]

(***************************************************************************)
(* The library called piecewise: ApiSpec starts from the states in which   *)
(* one operation of the schema, invocation or upload code is about to run  *)
(* on inputs drawn from bounded sets, and lets that operation run.         *)
(***************************************************************************)
\* Columns a worker author may declare: inputs (index -1 by construction)
\* and outputs with an explicit index, the sentinel and a negative one
\* included.
ColumnChoices ==
  {Column_input(n, n, ValueType_float_column) : n \in {"x", "y"}}
  \cup
  {Column_output(n, n, ValueType_float_column, i) : n \in {"p", "q"}, i \in {-5, -1, 0, 2}}

SchemaColumnLists == UNION {[1..k -> ColumnChoices] : k \in 0..MaxCols}

\* A worker about to run(): the registration it sends carries the
\* flattened column list.
ApiInitRegister ==
  /\ pc = "init"
  /\ worker_type = "Import"
  /\ columns \in SchemaColumnLists
  /\ invocation = NoInvocation
  /\ result = <<>>

\* What every starting state of ApiSpec shares with a fresh worker.
ApiFresh ==
  /\ EXIT = FALSE
  /\ iter = 0
  /\ log = <<>>
  /\ polled = <<>>
  /\ dispatched = <<>>
  /\ inflight = {}
  /\ exit_seen = FALSE
  /\ registrations = <<>>

\* A caller about to call one function or method of the library directly.
ApiInitCall ==
  /\ pc = "call"
  /\ worker_type = "Import"
  /\ columns = <<>>
  /\ invocation = NoInvocation
  /\ result = <<>>

\* The call returns (or raises): the log names the callee and its
\* arguments, result holds what came back.
Returns(callee, args, value) ==
  /\ pc' = "returned"
  /\ log' = <<Ev(callee, 0, 0, NoRes, args)>>
  /\ result' = value
  /\ UNCHANGED <<EXIT, worker_type, columns, invocation, iter,
                 polled, dispatched, inflight, exit_seen, registrations>>

\* Fallback indices a caller of Column.dict may pass.
IndexFallbacks == {None} \cup {Some(i) : i \in {0, 1, 7}}

\* column.dict(index_fallback)
Call_Column_dict ==
  /\ pc = "call"
  /\ \E c \in ColumnChoices, fb \in IndexFallbacks :
       Returns("Column.dict", [column |-> c, index_fallback |-> fb], Column_dict(c, fb))

\* The invocation a worker is serving when its hook is called.
ServedInvocation(task_type) ==
  Invocation([invocationId |-> 1, hasTask |-> TRUE, taskType |-> task_type,
              parameters |-> <<>>]).val

\* Tables a forecast hook may return for a worker declaring the columns
\* above: rows of a time cell and one cell per output name, with or without
\* rows, with a ds column, and one that lacks the column q.
SchemaFrames ==
  {Frame(<<"time", "p", "q">>, <<>>),
   Frame(<<"time", "p", "q">>, << <<"t1", "p1", "q1">>, <<"t2", "p2", "q2">> >>),
   Frame(<<"ds", "p", "q">>, << <<"t1", "p1", "q1">> >>),
   Frame(<<"time", "p">>, << <<"t1", "p1">> >>)}

\* A Forecast worker inside invoke(), about to call its hook.
ApiInitForecast ==
  /\ pc = "hook"
  /\ worker_type = "Forecast"
  /\ columns \in SchemaColumnLists
  /\ invocation = ServedInvocation("FORECAST")
  /\ result = <<>>

\* The forecast hook returns one of the tables.
forecast_table ==
  /\ pc = "hook" /\ worker_type = "Forecast"
  /\ \E f \in SchemaFrames : HookReturns("forecast", f)

\* Samples a run_sample hook may return: any non-empty list of the columns
\* above with one row of integer cells.
SchemaSamples ==
  {[columns |-> cl, data |-> Frame([i \in 1..Len(cl) |-> cl[i].name],
                                   << [i \in 1..Len(cl) |-> i] >>)]
     : cl \in SchemaColumnLists \ {<<>>}}

\* An Import worker inside invoke() for a sample task, about to call its
\* hook.
ApiInitSample ==
  /\ pc = "hook"
  /\ worker_type = "Import"
  /\ columns = OutputColumns
  /\ invocation = ServedInvocation("IMPORT_SAMPLE")
  /\ result = <<>>

\* The run_sample hook returns one of the samples.
run_sample_any ==
  /\ pc = "hook" /\ worker_type = "Import"
  /\ IsSampleTask(invocation.task_type)
  /\ \E sm \in SchemaSamples : HookReturns("run_sample", sm)

\* The factories by the name a caller uses.
Factories == {"bool_param", "int_param", "float_param", "str_param", "timestamp_param"}

Factory(f, name, description, default, nullable) ==
  CASE f = "bool_param" -> Parameter_bool_param(name, description, default, nullable)
    [] f = "int_param" -> Parameter_int_param(name, description, default, nullable)
    [] f = "float_param" -> Parameter_float_param(name, description, default, nullable)
    [] f = "str_param" -> Parameter_str_param(name, description, default, nullable)
    [] f = "timestamp_param" -> Parameter_timestamp_param(name, description, default, nullable)

\* Parameter.<factory>(name, description, default).dict(): an omitted
\* default is None; an exception of the constructor is what comes back.
Call_Parameter_dict ==
  /\ pc = "call"
  /\ \E f \in Factories, default \in PyValues :
       LET p == Factory(f, "n", "d", default, PyNone)
       IN  Returns("Parameter.dict", [factory |-> f, default |-> default],
                   IF p.exc # "" THEN Err(p.exc) ELSE Ok(Parameter_dict(p.val)))

\* Type tags a caller of _auto_cast may pass: the five of the library and
\* one it does not know.
TypeTags == {TYPE_BOOL, TYPE_INT, TYPE_FLOAT, TYPE_STR, TYPE_TIMESTAMP, "java.lang.Object"}

\* _auto_cast(value, value_type)
Call__auto_cast ==
  /\ pc = "call"
  /\ \E value \in PyValues, value_type \in TypeTags :
       Returns("_auto_cast", [value |-> value, value_type |-> value_type],
               _auto_cast(value, value_type))

\* Anomaly.__init__: the six fields of the dict are kept.
Anomaly(dict) ==
  [start |-> dict.start,
   end |-> dict.end,
   classification |-> dict.classification,
   sample |-> dict.sample,
   probability |-> dict.probability,
   metadata |-> dict.metadata]

\* The accessors of Anomaly; the end accessor returns self._start.
Anomaly_start(a) == a.start
Anomaly_end(a) == a.start
Anomaly_classification(a) == a.classification
Anomaly_sample(a) == a.sample
Anomaly_probability(a) == a.probability
Anomaly_metadata(a) == a.metadata

\* Anomaly.dict
Anomaly_dict(a) ==
  [start |-> a.start,
   end |-> a.end,
   classification |-> a.classification,
   sample |-> a.sample,
   probability |-> a.probability,
   metadata |-> a.metadata]

\* Dicts an Anomaly is constructed from: the interval may be a point or not.
AnomalyDicts ==
  {[start |-> st, end |-> en, classification |-> cl, sample |-> <<>>,
    probability |-> pr, metadata |-> <<>>]
     : st \in {"t1", "t2"}, en \in {"t1", "t2"}, cl \in {"spike", "dip"}, pr \in {0, 1}}

\* a = Anomaly(dict), then every accessor of a and a.dict() are read.
Call_Anomaly ==
  /\ pc = "call"
  /\ \E d \in AnomalyDicts :
       LET a == Anomaly(d)
       IN  Returns("Anomaly", d,
                   Ok([start |-> Anomaly_start(a),
                       end |-> Anomaly_end(a),
                       classification |-> Anomaly_classification(a),
                       sample |-> Anomaly_sample(a),
                       probability |-> Anomaly_probability(a),
                       metadata |-> Anomaly_metadata(a),
                       dict |-> Anomaly_dict(a)]))

\* Invocation(dict)
Call_Invocation ==
  /\ pc = "call"
  /\ \E d \in InvocationJsons : Returns("Invocation", d, Invocation(d))

ApiInit ==
  /\ ApiFresh
  /\ \/ ApiInitRegister
     \/ ApiInitCall
     \/ ApiInitForecast
     \/ ApiInitSample

ApiNext ==
  \/ run
  \/ InitialRegister
  \/ Call_Column_dict
  \/ Call_Parameter_dict
  \/ Call__auto_cast
  \/ Call_Invocation
  \/ Call_Anomaly
  \/ forecast_table
  \/ _upload_timeseries_data
  \/ run_sample_any
  \/ _upload_data_sample

ApiSpec == ApiInit /\ [][ApiNext]_vars

(***************************************************************************)
(* C11  Flattening of the declared columns.                                *)
(***************************************************************************)
\* Number of declared columns up to position k that have the role of the
\* k-th one.
RankInRole(cols, k) ==
  Cardinality({j \in 1..k : cols[j].column_type = cols[k].column_type})

NumInputs(cols) == Cardinality({j \in 1..Len(cols) : cols[j].column_type = "input"})

\* Where the k-th declared column stands in a list that has all inputs
\* first, then all outputs, each role in declaration order.
FlatPos(cols, k) ==
  IF cols[k].column_type = "input"
    THEN RankInRole(cols, k)
    ELSE NumInputs(cols) + RankInRole(cols, k)

\* The flattened list has every declared column at its place, inputs first.
FlatOrder(cols, flat) ==
  /\ Len(flat) = Len(cols)
  /\ \A k \in 1..Len(cols) :
       /\ flat[FlatPos(cols, k)].name = cols[k].name
       /\ flat[FlatPos(cols, k)].columnType = cols[k].column_type

\* C11 as claimed (violated): in every registration payload the flattened
\* list has the inputs first and then the outputs, each in declaration
\* order, and within each role the indices are exactly 0, 1, 2, ...
C11_ZeroBasedPerRole ==
  \A i \in At("register") :
    /\ FlatOrder(columns, log[i].body)
    /\ \A k \in 1..Len(columns) :
         log[i].body[FlatPos(columns, k)].index = RankInRole(columns, k) - 1

\* C11 amended: the order is as claimed and the inputs are numbered
\* 0, 1, 2, ...; an output column keeps the index it was declared with, and
\* only an output declared with index -1 gets its position among the outputs.
C11_FlattenKeepsExplicit ==
  \A i \in At("register") :
    /\ FlatOrder(columns, log[i].body)
    /\ \A k \in 1..Len(columns) :
         log[i].body[FlatPos(columns, k)].index =
           IF columns[k].index = -1 THEN RankInRole(columns, k) - 1
                                    ELSE columns[k].index

\* A payload was sent for an output declared before an input, with two
\* outputs of which one keeps an explicit index that is not its position
\* and the other is numbered by its position.
C11_Witness ==
  /\ At("register") # {}
  /\ Len(columns) = 3
  /\ columns[1].column_type = "output" /\ columns[1].index = 2
  /\ columns[2].column_type = "input"
  /\ columns[3].column_type = "output" /\ columns[3].index = -1

(***************************************************************************)
(* C12  Indices in the registration payload.                               *)
(***************************************************************************)
\* C12 as claimed (violated): every column entry of every registration
\* payload that was sent has an index of at least zero.
C12_RegisteredIndexNonNegative ==
  \A i \in At("register") :
    \A k \in 1..Len(log[i].body) : log[i].body[k].index >= 0

(***************************************************************************)
(* C13  Column.dict and the fallback index.                                *)
(***************************************************************************)
\* C13: a column whose own index is -1 serialised with no fallback raises
\* the schema error and yields no dict; with a fallback it gets the fallback;
\* a column whose own index is not -1 keeps it whatever the fallback.
C13_ColumnDictFallback ==
  \A i \in At("Column.dict") :
    LET c  == log[i].body.column
        fb == log[i].body.index_fallback
    IN  /\ (c.index = -1 /\ fb = None) =>
             (result.exc = "ValueError" /\ result.val = <<>>)
        /\ (c.index = -1 /\ fb # None) =>
             (result.exc = "" /\ result.val.index = fb[1])
        /\ (c.index # -1) =>
             (result.exc = "" /\ result.val.index = c.index)

\* Column.dict() was called with no fallback on a column whose index is -1.
C13_Witness ==
  \E i \in At("Column.dict") :
    /\ log[i].body.column.index = -1
    /\ log[i].body.index_fallback = None
    /\ result.exc = "ValueError"

(***************************************************************************)
(* C14  The time-series upload of a worker that declares columns.          *)
(***************************************************************************)
\* The index a declared column is transmitted with.
ResolvedIndex(cols, k) ==
  IF cols[k].index = -1 THEN RankInRole(cols, k) - 1 ELSE cols[k].index

Outputs(cols) == {k \in 1..Len(cols) : cols[k].column_type = "output"}

\* The declared output columns a time-series upload reads.
PositiveOutputs(cols) == {k \in Outputs(cols) : ResolvedIndex(cols, k) > 0}

\* The table has a column named after each of the declared columns ks.
Carries(data, cols, ks) ==
  \A k \in ks : \E n \in 1..Len(data.names) : data.names[n] = cols[k].name

\* The cell of a row under a column label.
Cell(data, row, name) ==
  row[CHOOSE n \in 1..Len(data.names) : data.names[n] = name]

\* The upload step of a forecast whose hook returned has run.
SeriesUploadRan == At("forecast") # {} /\ pc # "upload"

\* The body that was sent has one record per row of the table, in row
\* order, each with the row's time.
OneRecordPerRow(body, data) ==
  /\ Len(body) = Len(data.rows)
  /\ \A r \in 1..Len(body) :
       body[r].time = IF \E n \in 1..Len(data.names) : data.names[n] = "ds"
                        THEN Cell(data, data.rows[r], "ds") \o "Z"
                        ELSE data.rows[r][1]

\* C14 as claimed (violated): a worker that declares columns, given a table
\* with a column for each declared output, sends one request with one
\* record per row, and each values map has exactly one entry for every
\* declared output column, under its resolved index as a string, holding
\* the row's value for the column's name.
C14_EveryOutputKeyed ==
  \A j \in At("forecast") :
    LET data == log[j].body
    IN  (SeriesUploadRan /\ Len(columns) > 0 /\ Carries(data, columns, Outputs(columns))) =>
          /\ Cardinality(At("upload_series")) = 1
          /\ \A i \in At("upload_series") :
               /\ OneRecordPerRow(log[i].body, data)
               /\ \A r \in 1..Len(log[i].body) :
                    LET values == log[i].body[r].values
                    IN  /\ Cardinality(DOMAIN values) = Cardinality(Outputs(columns))
                        /\ \A k \in Outputs(columns) :
                             /\ ToString(ResolvedIndex(columns, k)) \in DOMAIN values
                             /\ values[ToString(ResolvedIndex(columns, k))]
                                  = Cell(data, data.rows[r], columns[k].name)

\* C14 amended: the values maps have one entry for every resolved index
\* greater than zero among the declared output columns, holding the row's
\* value for the name of the last declared output column with that index;
\* output columns with index zero or below have no entry.  With a row and
\* no column for one of those names nothing is sent.
C14_PositiveOutputsKeyed ==
  \A j \in At("forecast") :
    LET data == log[j].body
        read == PositiveOutputs(columns)
    IN  (SeriesUploadRan /\ Len(columns) > 0) =>
          IF Carries(data, columns, read) \/ Len(data.rows) = 0
            THEN /\ Cardinality(At("upload_series")) = 1
                 /\ \A i \in At("upload_series") :
                      /\ OneRecordPerRow(log[i].body, data)
                      /\ \A r \in 1..Len(log[i].body) :
                           LET values == log[i].body[r].values
                           IN  /\ DOMAIN values = {ToString(ResolvedIndex(columns, k)) : k \in read}
                               /\ \A k \in read :
                                    (\A m \in read :
                                       ResolvedIndex(columns, m) = ResolvedIndex(columns, k) => m <= k)
                                    => values[ToString(ResolvedIndex(columns, k))]
                                         = Cell(data, data.rows[r], columns[k].name)
            ELSE At("upload_series") = {}

\* A two-row table was uploaded for a worker declaring an output with index
\* 0 and an output with index 2.
C14_Witness ==
  /\ \E i \in At("upload_series") : Len(log[i].body) = 2
  /\ \E k \in Outputs(columns) : ResolvedIndex(columns, k) = 0
  /\ \E k \in Outputs(columns) : ResolvedIndex(columns, k) = 2 /\ columns[k].name = "q"

(***************************************************************************)
(* C15  The time-series upload of a worker that declares no output column. *)
(***************************************************************************)
\* C15 as claimed (violated): when the declared list holds no output column,
\* be it empty or made of input columns only, the request is sent once and
\* every column of the table after the first is in each values map under
\* its own name.
C15_FrameColumnsAreOutputs ==
  \A j \in At("forecast") :
    LET data == log[j].body
    IN  (SeriesUploadRan /\ Outputs(columns) = {}) =>
          /\ Cardinality(At("upload_series")) = 1
          /\ \A i \in At("upload_series") :
               /\ OneRecordPerRow(log[i].body, data)
               /\ \A r \in 1..Len(log[i].body) :
                    LET values == log[i].body[r].values
                    IN  /\ DOMAIN values = {data.names[n] : n \in 2..Len(data.names)}
                        /\ \A n \in 2..Len(data.names) :
                             values[data.names[n]] = data.rows[r][n]

\* The part of C15 that holds: a worker that declares no column at all.
C15_NoColumnDeclared ==
  columns = <<>> => C15_FrameColumnsAreOutputs

(***************************************************************************)
(* C16  The data-sample upload.                                            *)
(***************************************************************************)
\* The upload step of a sample task whose hook returned has run.
SampleUploadRan == At("run_sample") # {} /\ pc # "upload"

\* C16 as claimed (violated): for every sample, whatever the role and index
\* of its columns, one request is sent with one columns entry per sample
\* column, the data rows with every cell as a string, and errorFlag false.
C16_SampleUploaded ==
  \A j \in At("run_sample") :
    LET sample == log[j].body
    IN  SampleUploadRan =>
          /\ Cardinality(At("upload_sample")) = 1
          /\ \A i \in At("upload_sample") :
               LET body == log[i].body
               IN  /\ Len(body.columns) = Len(sample.columns)
                   /\ \A k \in 1..Len(sample.columns) :
                        /\ body.columns[k].name = sample.columns[k].name
                        /\ body.columns[k].columnType = sample.columns[k].column_type
                   /\ Len(body.data) = Len(sample.data.rows)
                   /\ \A r \in 1..Len(body.data) :
                        /\ Len(body.data[r]) = Len(sample.data.rows[r])
                        /\ \A n \in 1..Len(body.data[r]) :
                             body.data[r][n] = ToString(sample.data.rows[r][n])
                   /\ body.errorFlag = FALSE

\* The part of C16 that holds: samples none of whose columns has index -1.
C16_ExplicitIndicesUploaded ==
  (\A j \in At("run_sample") :
     \A k \in 1..Len(log[j].body.columns) : log[j].body.columns[k].index # -1)
  => C16_SampleUploaded

(***************************************************************************)
(* C17  Parameter: factory, then dict().                                   *)
(***************************************************************************)
\* The tag of a factory and the type of default its signature declares.
TagOf(f) ==
  CASE f = "bool_param" -> "java.lang.Boolean"
    [] f = "int_param" -> "java.lang.Long"
    [] f = "float_param" -> "java.lang.Double"
    [] f = "str_param" -> "java.lang.String"
    [] f = "timestamp_param" -> "java.time.Instant"

DeclaredDefault(f, v) ==
  \/ v.t = "NoneType"
  \/ f = "bool_param" /\ v.t = "bool"
  \/ f = "int_param" /\ v.t = "int"
  \/ f = "float_param" /\ v.t = "float"
  \/ f \in {"str_param", "timestamp_param"} /\ v.t = "str"

\* The text the claim expects in 'defaultValue' for the default a
\* parameter holds: str() of it, in lower case under the string tag.
StringForm(v, tag) ==
  IF tag = "java.lang.String" THEN lower(v.s) ELSE v.s

\* C17 as claimed (violated): for each of the five factories and every
\* default of the declared type, the omitted default (None) included,
\* construction and dict() succeed, 'type' is the factory's tag and
\* 'defaultValue' is the string form of the default the parameter holds.
C17_ParameterRoundTrip ==
  \A i \in At("Parameter.dict") :
    LET f == log[i].body.factory
        d == log[i].body.default
    IN  DeclaredDefault(f, d) =>
          /\ result.exc = ""
          /\ result.val.type = TagOf(f)
          /\ result.val.defaultValue = StringForm(_auto_cast(d, TagOf(f)).val, TagOf(f))

\* The part of C17 that holds: whenever the constructor does not raise.
C17_RoundTripWhenConstructed ==
  \A i \in At("Parameter.dict") :
    LET f == log[i].body.factory
        d == log[i].body.default
    IN  result.exc = "" =>
          /\ result.val.type = TagOf(f)
          /\ result.val.defaultValue = StringForm(_auto_cast(d, TagOf(f)).val, TagOf(f))

(***************************************************************************)
(* C18  _auto_cast.                                                        *)
(***************************************************************************)
\* C18: under the boolean tag every non-empty raw string, "false" included,
\* casts to True; under a tag that is none of boolean, float and integer
\* the raw value comes back unchanged.
C18_AutoCast ==
  \A i \in At("_auto_cast") :
    LET value == log[i].body.value
        tag   == log[i].body.value_type
    IN  /\ (tag = "java.lang.Boolean" /\ value.t = "str" /\ value.s # "") =>
             (result.exc = "" /\ result.val = [t |-> "bool", s |-> "True"])
        /\ (tag \notin {"java.lang.Boolean", "java.lang.Double", "java.lang.Long"}) =>
             (result.exc = "" /\ result.val = value)

\* _auto_cast was called with the raw string "false" under the boolean tag.
C18_Witness ==
  \E i \in At("_auto_cast") :
    /\ log[i].body.value = [t |-> "str", s |-> "false"]
    /\ log[i].body.value_type = "java.lang.Boolean"
    /\ result.exc = ""

(***************************************************************************)
(* C19  Invocation built from a dict.                                      *)
(***************************************************************************)
\* The constructed invocation keeps the dict's id and parameters.
Preserves(inv, d) ==
  /\ inv.invocation_id = d.invocationId
  /\ Len(inv.parameters) = Len(d.parameters)
  /\ \A k \in 1..Len(d.parameters) :
       /\ inv.parameters[k].name = d.parameters[k].name
       /\ inv.parameters[k].value = d.parameters[k].value

\* C19 as claimed (violated): constructing an Invocation from a dict with
\* 'invocationId' and 'parameters', with or without a 'task' entry,
\* succeeds and keeps the id and the parameters.
C19_InvocationFromDict ==
  \A i \in At("Invocation") :
    /\ result.exc = ""
    /\ Preserves(result.val, log[i].body)

\* The part of C19 that holds: dicts that carry a 'task' entry.
C19_WithTask ==
  \A i \in At("Invocation") :
    log[i].body.hasTask => (result.exc = "" /\ Preserves(result.val, log[i].body))

(***************************************************************************)
(* C20  A failed status update and the progress of the loop.               *)
(***************************************************************************)
\* The status update at position i of the log failed: the PUT raised, or
\* the server answered with a status other than 200.
StatusFailed(i) == log[i].res.exc # "" \/ log[i].res.status # 200
StatusRejected(i) == log[i].res.exc = "" /\ log[i].res.status # 200

\* After the status update at position i, run() went on: to invoke after a
\* status-2 update, to the top of the loop after a status-1 update.
WentOn(i) ==
  IF log[i].arg = 2
    THEN pc = "invoke" \/ \E j \in At("invoke") : j > i
    ELSE pc \in {"loop", "done"}

\* C20 as claimed (violated): a status update that fails, by a non-success
\* answer or by a failure of the PUT itself, does not stop run(): invoke is
\* still called after a failed status-2 update and the loop goes on after a
\* failed status-1 update.
C20_StatusFailureDoesNotBlock ==
  \A i \in At("status") : StatusFailed(i) => WentOn(i)

\* The part of C20 that holds: the server answers with a non-success status.
C20_RejectedStatusDoesNotBlock ==
  \A i \in At("status") : StatusRejected(i) => WentOn(i)

(***************************************************************************)
(* C21  A signal during an iteration.                                      *)
(***************************************************************************)
\* The main thread is inside the body of the loop.
InBody ==
  pc \in {"sleep", "poll", "reregister", "status2", "invoke", "fetch",
          "hook", "upload", "status1"}

\* The poll of the iteration in the log returned an invocation.
PolledInvocation ==
  /\ \E i \in At("poll") : log[i].res.exc = "" /\ log[i].res.status = 200
  /\ At("raise") = {} \/ At("invoke") # {}
  /\ invocation # NoInvocation

\* invoke was called and returned, and the status-1 update was sent after
\* its return.
ServedToTheEnd ==
  \E i \in At("invoke"), j \in At("invoke_ret"), k \in StatusAt(1) : i < j /\ j < k

\* C21: a signal that arrives inside the body of the loop sets the flag and
\* changes nothing else; the loop is never left from inside its body; when
\* run() returns after an iteration whose poll returned an invocation,
\* invoke has returned and the status-1 update was sent; and an iteration
\* that holds an invocation with the flag set still gets to its status-1
\* update, unless an exception leaves run() (which it does with or without
\* a signal).
C21_SignalDoesNotInterrupt ==
  /\ [][(InBody /\ EXIT' # EXIT /\ registrations' = registrations) =>
          /\ pc' = pc
          /\ log' = log
          /\ invocation' = invocation
          /\ result' = result
          /\ polled' = polled /\ dispatched' = dispatched /\ inflight' = inflight]_vars
  /\ [][InBody => pc' # "done"]_vars
  /\ []((pc = "done" /\ PolledInvocation) => ServedToTheEnd)
  /\ (EXIT /\ InBody /\ PolledInvocation) ~> (StatusAt(1) # {} \/ pc = "crashed")

\* The flag was set after the top-of-loop check of an iteration that polled
\* an invocation, and invoke has nevertheless returned: the status-1 update
\* is about to be sent.
C21_Witness ==
  /\ EXIT /\ ~exit_seen
  /\ pc = "status1"
  /\ PolledInvocation
  /\ \E i \in At("invoke"), j \in At("invoke_ret") : i < j
  /\ \A i \in 1..Len(registrations) : registrations[i].exc = ""

(***************************************************************************)
(* C22  When registration requests are sent.                               *)
(***************************************************************************)
\* A step sends a registration request.
RegistrationSent == Len(registrations') = Len(registrations) + 1

\* C22: one registration request is sent before the first poll and none
\* other before it; afterwards a registration request is only sent inside
\* an iteration whose poll was answered 403, as the step right after that
\* poll, and exactly one per such answer; an iteration whose poll had any
\* other outcome sends none, whatever it dispatches.
C22_RegistrationRequests ==
  /\ [][RegistrationSent =>
          \/ pc = "register" /\ iter = 0 /\ registrations = <<>> /\ polled = <<>>
          \/ pc = "reregister" /\ PolledStatus(403) /\ Len(log) = 1]_vars
  /\ [][registrations' # registrations => RegistrationSent]_vars
  /\ [](iter = 0 => (Len(registrations) <= 1 /\ At("poll") = {}))
  /\ [](iter >= 1 => Len(registrations) >= 1)
  /\ [](iter >= 1 =>
          Cardinality(At("register")) =
            IF PolledStatus(403) /\ pc # "reregister" THEN 1 ELSE 0)
  /\ [](pc = "reregister" <=> (PolledStatus(403) /\ Len(log) = 1))

\* In its first iteration the poll was not answered 403 and nothing was
\* registered; in its second it was, and the second registration of the
\* run was sent.
C22_Witness ==
  /\ iter = 2
  /\ PolledStatus(403)
  /\ Len(log) = 2
  /\ log[2].op = "register"
  /\ Len(registrations) = 2

(***************************************************************************)
(* C23  A timeout of the registration made after a 403 poll.               *)
(***************************************************************************)
\* The iteration's poll was answered 403 and the registration that followed
\* ended in a timeout (the TimeoutError the except clause names).
ReregisterTimeout ==
  /\ PolledStatus(403)
  /\ Len(log) = 2
  /\ log[2].op = "register"
  /\ log[2].res.exc = "TimeoutError"

\* C23: such a timeout sets the flag; the iteration dispatches nothing (no
\* status update, no invoke); control is at the top of the loop, from where
\* the only step is the exit; no further request is sent, and run() returns.
C23_ReregisterTimeoutFatal ==
  /\ [](ReregisterTimeout =>
          /\ EXIT
          /\ pc \in {"loop", "done"}
          /\ At("status") = {} /\ At("invoke") = {}
          /\ invocation = NoInvocation
          /\ inflight = {}
          /\ dispatched = polled)
  /\ [][ReregisterTimeout =>
          /\ pc' \in {"loop", "done"}
          /\ log' = log
          /\ polled' = polled
          /\ registrations' = registrations]_vars
  /\ ReregisterTimeout ~> (pc = "done")

\* A re-registration timed out after an initial registration that did not,
\* and run() has returned.
C23_Witness ==
  /\ ReregisterTimeout
  /\ pc = "done"
  /\ Len(registrations) = 2
  /\ registrations[1].exc = ""

(***************************************************************************)
(* C24  The accessors of Anomaly.                                          *)
(***************************************************************************)
\* What was read from the anomaly agrees, for the five fields other than
\* end, with the dict it was built from and with dict().
OtherAccessorsAgree(read, given) ==
  /\ read.start = given.start /\ read.start = read.dict.start
  /\ read.classification = given.classification
  /\ read.classification = read.dict.classification
  /\ read.sample = given.sample /\ read.sample = read.dict.sample
  /\ read.probability = given.probability /\ read.probability = read.dict.probability
  /\ read.metadata = given.metadata /\ read.metadata = read.dict.metadata

\* C24 as claimed (violated): every accessor returns the field of its name
\* given at construction and agrees with that field of dict(), the end
\* accessor too, also when end differs from start.
C24_AnomalyAccessors ==
  \A i \in At("Anomaly") :
    /\ OtherAccessorsAgree(result.val, log[i].body)
    /\ result.val.end = log[i].body.end
    /\ result.val.end = result.val.dict.end

\* The part of C24 that holds: the five other accessors, dict() itself, and
\* the end accessor of an anomaly whose end equals its start.
C24_AllButEnd ==
  \A i \in At("Anomaly") :
    /\ OtherAccessorsAgree(result.val, log[i].body)
    /\ result.val.dict = log[i].body
    /\ log[i].body.end = log[i].body.start =>
         (result.val.end = log[i].body.end /\ result.val.end = result.val.dict.end)

====
